---- MODULE Spec2Model ----
(***************************************************************************)
(* A model of bitey/bind.py: the lowering of LLVM types to ctypes types    *)
(* (map_llvm_to_ctypes), the wrapping of one function                      *)
(* (make_ctypes_wrapper) and of a module (make_all_wrappers).              *)
(*                                                                         *)
(* Strings the code inspects (startswith, split) are sequences of          *)
(* one-character strings.  Classes built by type(ctypes.Structure)(...)    *)
(* live in a heap, `classes`, so that identity is the heap index.          *)
(***************************************************************************)
EXTENDS Integers, Sequences, FiniteSets, TLC

VARIABLES
    structs,      \* the LLVM module's named struct types: LLVM name -> elements
    funcs,        \* llvm_module.functions, in enumeration order
    py_module,    \* the destination namespace: attribute name -> entry
    classes,      \* heap of the ctypes.Structure subclasses created so far
    wrappers,     \* heap of the ctypes callables created so far
    stack,        \* activations of map_llvm_to_ctypes, innermost last
    ret,          \* what the innermost finished activation returned or raised
    pc,           \* "idle" | "lower" | "loop" | "wrap" | "build"
    functions,    \* make_all_wrappers' filtered list of functions
    fi,           \* position of make_all_wrappers' for loop in functions
    ai,           \* make_ctypes_wrapper: 0 while lowering ret_type, k for args[k]
    ret_ctype,    \* make_ctypes_wrapper's ret_ctype, as a 0/1-element sequence
    args_ctypes,  \* make_ctypes_wrapper's args_ctypes so far
    attempted,    \* names of the functions handed to make_ctypes_wrapper
    resolved,     \* names of the functions handed to engine.get_pointer_to_function
    outcome,      \* the last top-level call: its argument, the namespace and the
                  \* number of classes it started from, and how it ended
    ops           \* number of top-level calls made so far

vars == <<structs, funcs, py_module, classes, wrappers, stack, ret, pc,
          functions, fi, ai, ret_ctype, args_ctypes, attempted, resolved,
          outcome, ops>>

(***************************************************************************)
(* Bounds of the model.                                                    *)
(***************************************************************************)
MaxElems == 2       \* elements of one struct type
MaxFields == 3      \* elements of all struct types of a module together
MaxPtrDepth == 2    \* pointer nesting of a type handed to map_llvm_to_ctypes
MaxFuncs == 2       \* functions of a module
MaxHint == 3        \* length of a pre-declared _fields_ name list
MaxOps == 2         \* top-level calls in one behaviour

Min(a, b) == IF a < b THEN a ELSE b

RECURSIVE SeqsUpTo(_, _)
SeqsUpTo(S, n) ==
    IF n = 0 THEN {<<>>}
    ELSE LET shorter == SeqsUpTo(S, n - 1)
         IN  shorter \cup {Append(s, x) : s \in {t \in shorter : Len(t) = n - 1}, x \in S}

(***************************************************************************)
(* Strings.                                                                *)
(***************************************************************************)
StartsWith(s, c) == Len(s) >= 1 /\ s[1] = c

\* s.split('.')[-1]: what follows the last "." of s (all of s without one)
RECURSIVE SplitLast(_)
SplitLast(s) ==
    IF \E k \in 1..Len(s) : s[k] = "."
    THEN SplitLast(SubSeq(s, (CHOOSE k \in 1..Len(s) : s[k] = ".") + 1, Len(s)))
    ELSE s

Digits == <<"0", "1", "2", "3", "4", "5", "6", "7", "8", "9">>

\* str(n) for a natural number n
RECURSIVE Str(_)
Str(n) == IF n < 10 THEN <<Digits[n + 1]>>
          ELSE Str(n \div 10) \o <<Digits[(n % 10) + 1]>>

(***************************************************************************)
(* LLVM types (llvm_type.kind, .width, .pointee, .name).                   *)
(***************************************************************************)
LType(k, w, n, p) == [kind |-> k, width |-> w, name |-> n, pointee |-> p]
Integer(w) == LType("TYPE_INTEGER", w, <<>>, <<>>)
Float      == LType("TYPE_FLOAT", 0, <<>>, <<>>)
Double     == LType("TYPE_DOUBLE", 0, <<>>, <<>>)
Void       == LType("TYPE_VOID", 0, <<>>, <<>>)
Other      == LType("TYPE_OTHER", 0, <<>>, <<>>)
Pointer(t) == LType("TYPE_POINTER", 0, <<>>, <<t>>)
Struct(n)  == LType("TYPE_STRUCT", 0, n, <<>>)

SA == <<"s", ".", "A">>
SB == <<"s", ".", "B">>
StructNames == {SA, SB}

(***************************************************************************)
(* ctypes types.  A Structure subclass is named by its heap index.         *)
(***************************************************************************)
CType(c, w, t, i) == [c |-> c, width |-> w, to |-> t, id |-> i]
c_int(w)     == CType("c_int", w, <<>>, 0)
c_double     == CType("c_double", 0, <<>>, 0)
c_float      == CType("c_float", 0, <<>>, 0)
c_char_p     == CType("c_char_p", 0, <<>>, 0)
c_void_p     == CType("c_void_p", 0, <<>>, 0)
POINTER(t)   == CType("POINTER", 0, <<t>>, 0)
Structure(i) == CType("Structure", 0, <<>>, i)
None         == CType("None", 0, <<>>, 0)

\* the widths w for which the ctypes module has an attribute c_int<w>
NativeWidths == {8, 16, 32, 64}

(***************************************************************************)
(* The destination namespace.  getattr(py_module, name, None) is           *)
(* py_module[name]; an attribute that is not set reads as Absent (None).   *)
(* A Class is a pre-declared class that is no ctypes.Structure and carries *)
(* a _fields_ list of names.                                               *)
(***************************************************************************)
Entry(k, r, f)  == [k |-> k, ref |-> r, fields |-> f]
Absent          == Entry("None", 0, <<>>)
Class(names)    == Entry("class", 0, names)
StructClass(id) == Entry("Structure", id, <<>>)
Callable(w)     == Entry("callable", w, <<>>)

\* bool(x): None is false, a class is true, a ctypes function pointer is
\* true iff its address is not null
Truthy(e, heap) ==
    CASE e.k = "None"     -> FALSE
      [] e.k = "callable" -> heap[e.ref].addr # 0
      [] OTHER            -> TRUE

IsClass(e) == e.k \in {"class", "Structure"}

\* a test for the wrong base class
IsStructureSubclass_Plain(e) == e.k = "class"

\* issubclass(struct_type, ctypes.Structure)
IsStructureSubclass(e) == e.k = "Structure"

HasFieldsAttr(e) == e.k = "class"

(***************************************************************************)
(* map_llvm_to_ctypes, one activation per stack frame.                     *)
(***************************************************************************)
Frame(t, st, id, names, i, fields) ==
    [ty |-> t, st |-> st, id |-> id, names |-> names, i |-> i, fields |-> fields]
CallFrame(t) == Frame(t, "call", 0, <<>>, 0, <<>>)

NoRet    == [st |-> "none", val |-> None, exc |-> ""]
Value(v) == [st |-> "value", val |-> v, exc |-> ""]
Raise(e) == [st |-> "raise", val |-> None, exc |-> e]

Top  == stack[Len(stack)]
Rest == SubSeq(stack, 1, Len(stack) - 1)

\* getattr(ctypes, "c_int" + str(width)): an AttributeError without such a name
IntegerCtype(width) ==
    IF width \in NativeWidths THEN Value(c_int(width)) ELSE Raise("AttributeError")

\* lines 18-23 and 72-75: the kinds that need no recursion
ScalarCtype(t) ==
    CASE t.kind = "TYPE_INTEGER" -> IntegerCtype(t.width)
      [] t.kind = "TYPE_DOUBLE"  -> Value(c_double)
      [] t.kind = "TYPE_FLOAT"   -> Value(c_float)
      [] t.kind = "TYPE_VOID"    -> Value(None)
      [] OTHER                   -> Raise("TypeError")

IsScalarKind(t) == t.kind \notin {"TYPE_POINTER", "TYPE_STRUCT"}

\* a lowering without the char* case
PointerSpecial_NoCharP(pointee) ==
    IF pointee.kind = "TYPE_VOID" THEN <<c_void_p>> ELSE <<>>

\* lines 25-38: the ctypes type of a pointer known without recursion, if any
PointerSpecial(pointee) ==
    IF pointee.kind = "TYPE_INTEGER"
    THEN IF pointee.width = 8 THEN <<c_char_p>> ELSE <<>>
    ELSE IF pointee.kind = "TYPE_VOID" THEN <<c_void_p>> ELSE <<>>

\* [ "e"+str(n) for n in range(element_count) ]
DefaultNames(element_count) == [n \in 1..element_count |-> <<"e">> \o Str(n - 1)]

\* lines 50-53
FieldNames(struct_type, element_count) ==
    IF HasFieldsAttr(struct_type) THEN struct_type.fields
    ELSE DefaultNames(element_count)

\* zip(names, llvm_type.elements) stops with the shorter of the two
ZipLen(names, elements) == Min(Len(names), Len(elements))

NewClass(struct_name) ==
    [name |-> struct_name, has_fields |-> FALSE, fields |-> <<>>, final |-> FALSE]

\* a class that is not registered before its members are handled
Register_Late(ns, struct_name, id) == ns

\* line 61: setattr(py_module, struct_name, ctype)
Register(ns, struct_name, id) == [ns EXCEPT ![struct_name] = StructClass(id)]

\* setattr(ctype, '_fields_', fields): ctypes attaches the list, and closes the
\* class and every Structure class embedded by value to a later _fields_
SetFields(heap, id, fields) ==
    LET embedded == {fields[k][2].id : k \in {j \in 1..Len(fields) : fields[j][2].c = "Structure"}}
    IN  [j \in 1..Len(heap) |->
            IF j = id
            THEN [heap[j] EXCEPT !.has_fields = TRUE, !.fields = fields, !.final = TRUE]
            ELSE IF j \in embedded THEN [heap[j] EXCEPT !.final = TRUE]
            ELSE heap[j]]

Unchanged_driver == UNCHANGED <<structs, funcs, wrappers, pc, functions, fi, ai,
                                ret_ctype, args_ctypes, attempted, resolved,
                                outcome, ops>>

\* an integer, float, double, void or unknown kind
LowerScalar ==
    /\ stack # <<>> /\ ret.st = "none"
    /\ Top.st = "call" /\ IsScalarKind(Top.ty)
    /\ stack' = Rest
    /\ ret' = ScalarCtype(Top.ty)
    /\ UNCHANGED <<py_module, classes>>
    /\ Unchanged_driver

\* a pointer: char* and void* at once, anything else after lowering the pointee
LowerPointer ==
    /\ stack # <<>> /\ ret.st = "none"
    /\ Top.st = "call" /\ Top.ty.kind = "TYPE_POINTER"
    /\ LET pointee == Top.ty.pointee[1]
           special == PointerSpecial(pointee)
       IN  IF special # <<>>
           THEN /\ stack' = Rest
                /\ ret' = Value(special[1])
           ELSE /\ stack' = Rest \o <<[Top EXCEPT !.st = "ptr"], CallFrame(pointee)>>
                /\ ret' = NoRet
    /\ UNCHANGED <<py_module, classes>>
    /\ Unchanged_driver

\* ctypes.POINTER(map_llvm_to_ctypes(pointee, py_module))
PointerReturn ==
    /\ stack # <<>> /\ ret.st = "value"
    /\ Top.st = "ptr"
    /\ stack' = Rest
    /\ ret' = Value(POINTER(ret.val))
    /\ UNCHANGED <<py_module, classes>>
    /\ Unchanged_driver

\* lines 40-61: the cached class, or a new empty class registered under its name
LowerStruct ==
    /\ stack # <<>> /\ ret.st = "none"
    /\ Top.st = "call" /\ Top.ty.kind = "TYPE_STRUCT"
    /\ LET struct_name == SplitLast(Top.ty.name)
           struct_type == py_module[struct_name]
           elements    == structs[Top.ty.name]
           names       == FieldNames(struct_type, Len(elements))
           id          == Len(classes) + 1
       IN  IF Truthy(struct_type, wrappers) /\ ~IsClass(struct_type)
           THEN \* issubclass() arg 1 must be a class
                /\ stack' = Rest
                /\ ret' = Raise("TypeError")
                /\ UNCHANGED <<py_module, classes>>
           ELSE IF Truthy(struct_type, wrappers) /\ IsStructureSubclass(struct_type)
           THEN /\ stack' = Rest
                /\ ret' = Value(Structure(struct_type.ref))
                /\ UNCHANGED <<py_module, classes>>
           ELSE /\ classes' = Append(classes, NewClass(struct_name))
                /\ py_module' = Register(py_module, struct_name, id)
                /\ stack' = Rest \o <<Frame(Top.ty, "fields", id, names, 1, <<>>)>>
                /\ ret' = NoRet
    /\ Unchanged_driver

\* line 64: the next element of the comprehension
FieldNext ==
    /\ stack # <<>> /\ ret.st = "none"
    /\ Top.st = "fields"
    /\ Top.i <= ZipLen(Top.names, structs[Top.ty.name])
    /\ stack' = Append(stack, CallFrame(structs[Top.ty.name][Top.i]))
    /\ UNCHANGED <<ret, py_module, classes>>
    /\ Unchanged_driver

\* line 64: (name, map_llvm_to_ctypes(elem, py_module))
FieldReturn ==
    /\ stack # <<>> /\ ret.st = "value"
    /\ Top.st = "fields"
    /\ stack' = Rest \o <<[Top EXCEPT !.fields = Append(@, <<Top.names[Top.i], ret.val>>),
                                     !.i = @ + 1]>>
    /\ ret' = NoRet
    /\ UNCHANGED <<py_module, classes>>
    /\ Unchanged_driver

\* line 70: the field list is attached last
StructFinish ==
    /\ stack # <<>> /\ ret.st = "none"
    /\ Top.st = "fields"
    /\ Top.i > ZipLen(Top.names, structs[Top.ty.name])
    /\ stack' = Rest
    /\ IF classes[Top.id].final
       THEN \* _fields_ is final
            /\ ret' = Raise("AttributeError")
            /\ UNCHANGED classes
       ELSE /\ ret' = Value(Structure(Top.id))
            /\ classes' = SetFields(classes, Top.id, Top.fields)
    /\ UNCHANGED py_module
    /\ Unchanged_driver

\* an exception leaves every activation of map_llvm_to_ctypes: none catches
Unwind ==
    /\ stack # <<>> /\ ret.st = "raise"
    /\ stack' = <<>>
    /\ UNCHANGED <<ret, py_module, classes>>
    /\ Unchanged_driver

Lowering ==
    \/ LowerScalar
    \/ LowerPointer
    \/ PointerReturn
    \/ LowerStruct
    \/ FieldNext
    \/ FieldReturn
    \/ StructFinish
    \/ Unwind

(***************************************************************************)
(* make_ctypes_wrapper and make_all_wrappers.                              *)
(***************************************************************************)
NoOutcome ==
    [op |-> "none", ty |-> <<>>, ns |-> <<>>, nclasses |-> 0,
     st |-> "none", val |-> None, exc |-> ""]
Running(op, a) ==
    [op |-> op, ty |-> a, ns |-> py_module, nclasses |-> Len(classes),
     st |-> "running", val |-> None, exc |-> ""]

\* a filter that forgets the linkage
IsWrappable_AnyLinkage(func) ==
    /\ ~StartsWith(func.name, "_")
    /\ ~func.is_declaration

\* lines 110-112
IsWrappable(func) ==
    /\ ~StartsWith(func.name, "_")
    /\ ~func.is_declaration
    /\ func.linkage = "LINKAGE_EXTERNAL"

\* lines 109-112
WrappableFunctions(fs) == SelectSeq(fs, IsWrappable)

\* engine.get_pointer_to_function(func): the address of the compiled body,
\* one per function of the module and never null
PointerToFunction(func) == CHOOSE k \in 1..Len(funcs) : funcs[k] = func

\* lines 95-101 and 117: functype(addr), named after the function
NewWrapper(func, restype, argtypes) ==
    [name |-> func.name, restype |-> restype, argtypes |-> argtypes,
     addr |-> PointerToFunction(func)]

\* line 116: setattr(py_module, func.name, wrapper)
Install(ns, func, w) == [ns EXCEPT ![func.name] = Callable(w)]

Unchanged_loop == UNCHANGED <<functions, fi, ai, ret_ctype, args_ctypes,
                              attempted, resolved, wrappers>>

\* a caller lowers one type into the namespace
CallLower(t) ==
    /\ pc = "idle" /\ ops < MaxOps
    /\ pc' = "lower"
    /\ ops' = ops + 1
    /\ stack' = <<CallFrame(t)>>
    /\ ret' = NoRet
    /\ outcome' = Running("lower", <<t>>)
    /\ UNCHANGED <<structs, funcs, py_module, classes>>
    /\ Unchanged_loop

\* map_llvm_to_ctypes hands its result, or its exception, to the caller
LowerDone ==
    /\ pc = "lower" /\ stack = <<>> /\ ret.st # "none"
    /\ pc' = "idle"
    /\ outcome' = [outcome EXCEPT !.st = ret.st, !.val = ret.val, !.exc = ret.exc]
    /\ ret' = NoRet
    /\ UNCHANGED <<structs, funcs, py_module, classes, stack, ops>>
    /\ Unchanged_loop

\* lines 109-112: make_all_wrappers selects the functions to wrap
CallMakeAllWrappers ==
    /\ pc = "idle" /\ ops < MaxOps
    /\ pc' = "loop"
    /\ ops' = ops + 1
    /\ functions' = WrappableFunctions(funcs)
    /\ fi' = 1
    /\ outcome' = Running("batch", <<>>)
    /\ UNCHANGED <<structs, funcs, py_module, classes, wrappers, stack, ret, ai,
                   ret_ctype, args_ctypes, attempted, resolved>>

\* lines 113-114 and 84-87: the next function enters make_ctypes_wrapper
LoopNext ==
    /\ pc = "loop" /\ fi <= Len(functions)
    /\ pc' = "wrap"
    /\ attempted' = attempted \cup {functions[fi].name}
    /\ ai' = 0
    /\ ret_ctype' = <<>>
    /\ args_ctypes' = <<>>
    /\ stack' = <<CallFrame(functions[fi].return_type)>>
    /\ ret' = NoRet
    /\ UNCHANGED <<structs, funcs, py_module, classes, wrappers, functions, fi,
                   resolved, outcome, ops>>

\* lines 87-88: a type of the signature is lowered; the next argument follows
WrapNext ==
    /\ pc = "wrap" /\ stack = <<>> /\ ret.st = "value"
    /\ IF ai = 0
       THEN ret_ctype' = <<ret.val>> /\ UNCHANGED args_ctypes
       ELSE args_ctypes' = Append(args_ctypes, ret.val) /\ UNCHANGED ret_ctype
    /\ ret' = NoRet
    /\ IF ai < Len(functions[fi].args)
       THEN /\ ai' = ai + 1
            /\ stack' = <<CallFrame(functions[fi].args[ai + 1])>>
            /\ UNCHANGED pc
       ELSE /\ pc' = "build"
            /\ UNCHANGED <<ai, stack>>
    /\ UNCHANGED <<structs, funcs, py_module, classes, wrappers, functions, fi,
                   attempted, resolved, outcome, ops>>

\* lines 95-101 and 115-117: the callable is built and installed
WrapBuild ==
    /\ pc = "build"
    /\ LET func == functions[fi]
           w    == Len(wrappers) + 1
       IN  /\ resolved' = resolved \cup {func.name}
           /\ wrappers' = Append(wrappers, NewWrapper(func, ret_ctype[1], args_ctypes))
           /\ IF Truthy(Callable(w), wrappers')
              THEN py_module' = Install(py_module, func, w)
              ELSE UNCHANGED py_module
    /\ pc' = "loop"
    /\ fi' = fi + 1
    /\ ai' = 0
    /\ ret_ctype' = <<>>
    /\ args_ctypes' = <<>>
    /\ UNCHANGED <<structs, funcs, classes, stack, ret, functions, attempted,
                   outcome, ops>>

\* which exceptions make_ctypes_wrapper's except clause catches (line 89)
Caught(exc) == exc = "TypeError"

\* lines 89-92 and 118-120: a TypeError makes the wrapper None, and the
\* function is passed over; any other exception leaves make_all_wrappers
WrapExcept ==
    /\ pc = "wrap" /\ stack = <<>> /\ ret.st = "raise"
    /\ ret' = NoRet
    /\ ai' = 0
    /\ ret_ctype' = <<>>
    /\ args_ctypes' = <<>>
    /\ IF Caught(ret.exc)
       THEN /\ pc' = "loop"
            /\ fi' = fi + 1
            /\ UNCHANGED <<functions, outcome>>
       ELSE /\ pc' = "idle"
            /\ fi' = 0
            /\ functions' = <<>>
            /\ outcome' = [outcome EXCEPT !.st = "raise", !.exc = ret.exc]
    /\ UNCHANGED <<structs, funcs, py_module, classes, wrappers, stack,
                   attempted, resolved, ops>>

\* the for loop is exhausted: make_all_wrappers returns
LoopEnd ==
    /\ pc = "loop" /\ fi > Len(functions)
    /\ pc' = "idle"
    /\ fi' = 0
    /\ functions' = <<>>
    /\ outcome' = [outcome EXCEPT !.st = "done"]
    /\ UNCHANGED <<structs, funcs, py_module, classes, wrappers, stack, ret, ai,
                   ret_ctype, args_ctypes, attempted, resolved, ops>>

(***************************************************************************)
(* The modules and namespaces the behaviours start from.                   *)
(***************************************************************************)
Widths == {1, 8, 16, 32, 64}

BaseTypes == {Integer(w) : w \in Widths} \cup {Float, Double, Void, Other}
                 \cup {Struct(n) : n \in StructNames}

RECURSIVE TypesOfDepth(_)
TypesOfDepth(d) ==
    IF d = 0 THEN BaseTypes
    ELSE LET inner == TypesOfDepth(d - 1) IN inner \cup {Pointer(t) : t \in inner}

\* the types a caller may hand to map_llvm_to_ctypes
TopTypes == TypesOfDepth(MaxPtrDepth)

\* the element types of the structs of a module
ElemTypes == {Integer(32), Other, Pointer(Integer(8))}
                 \cup {Pointer(Struct(n)) : n \in StructNames}
                 \cup {Struct(n) : n \in StructNames}

Range(s) == {s[k] : k \in 1..Len(s)}

\* the structs a struct embeds by value, directly or through others
RECURSIVE Embeds(_, _, _)
Embeds(t, n, fuel) ==
    LET direct == {e.name : e \in {x \in Range(t[n]) : x.kind = "TYPE_STRUCT"}}
    IN  IF fuel = 0 THEN direct
        ELSE direct \cup UNION {Embeds(t, m, fuel - 1) : m \in direct}

\* a well-formed module: no struct contains itself other than through a pointer
WellFormed(t) == \A n \in StructNames : n \notin Embeds(t, n, Cardinality(StructNames))

TotalFields(t) == Len(t[SA]) + Len(t[SB])

StructTables(elems) ==
    {t \in [StructNames -> SeqsUpTo(elems, MaxElems)] :
        TotalFields(t) <= MaxFields /\ WellFormed(t)}

PyNameA == SplitLast(SA)
FuncNames == {<<"f">>, <<"g">>, PyNameA, <<"_", "h">>}
PyNames == {SplitLast(n) : n \in StructNames} \cup FuncNames

\* a pre-declared _fields_ list of n names
HintNames(n) == [k \in 1..n |-> <<"x">> \o Str(k)]

EmptyNamespace == [n \in PyNames |-> Absent]

Namespaces ==
    {EmptyNamespace} \cup
    {[EmptyNamespace EXCEPT ![PyNameA] = Class(HintNames(n))] : n \in 0..MaxHint}

InitCommon ==
    /\ classes = <<>>
    /\ wrappers = <<>>
    /\ stack = <<>>
    /\ ret = NoRet
    /\ pc = "idle"
    /\ functions = <<>>
    /\ fi = 0
    /\ ai = 0
    /\ ret_ctype = <<>>
    /\ args_ctypes = <<>>
    /\ attempted = {}
    /\ resolved = {}
    /\ outcome = NoOutcome
    /\ ops = 0

\* a module of structs and a namespace, for callers of map_llvm_to_ctypes
InitLower ==
    /\ structs \in StructTables(ElemTypes)
    /\ funcs = <<>>
    /\ py_module \in Namespaces
    /\ InitCommon

NextLower ==
    \/ \E t \in TopTypes : CallLower(t)
    \/ LowerDone
    \/ Lowering

SpecLower == InitLower /\ [][NextLower]_vars

\* the parameter types of the functions of a module
ArgTypes == {Integer(32), Integer(1), Other, Pointer(Struct(SA))}
RetTypes == {Void, Integer(32)}
MaxArgs == 1

Function(n, d, l, r, a) ==
    [name |-> n, is_declaration |-> d, linkage |-> l, return_type |-> r, args |-> a]

FunctionRecords ==
    {Function(n, d, l, r, a) :
        n \in FuncNames, d \in BOOLEAN,
        l \in {"LINKAGE_EXTERNAL", "LINKAGE_INTERNAL"},
        r \in RetTypes, a \in SeqsUpTo(ArgTypes, MaxArgs)}

\* the functions of a module have distinct names
FunctionLists ==
    {fs \in SeqsUpTo(FunctionRecords, MaxFuncs) :
        \A i, j \in 1..Len(fs) : fs[i].name = fs[j].name => i = j}

\* the structs of a module whose functions mention one struct only
WrapTables ==
    {t \in [StructNames -> SeqsUpTo({Integer(32), Other}, MaxElems)] :
        t[SB] = <<>> /\ t[SA] # <<>>}

\* a module of functions and an empty namespace, for callers of make_all_wrappers
InitWrap ==
    /\ structs \in WrapTables
    /\ funcs \in FunctionLists
    /\ py_module = EmptyNamespace
    /\ InitCommon

NextWrap ==
    \/ CallMakeAllWrappers
    \/ LoopNext
    \/ WrapNext
    \/ WrapBuild
    \/ WrapExcept
    \/ LoopEnd
    \/ Lowering

SpecWrap == InitWrap /\ [][NextWrap]_vars

(***************************************************************************)
(* What the specification calls things.                                    *)
(***************************************************************************)
PyName(n) == SplitLast(n)

\* the eligible functions: no internal-use marker, a body, external linkage
Eligible(f) ==
    /\ f.name = <<>> \/ f.name[1] # "_"
    /\ f.is_declaration = FALSE
    /\ f.linkage = "LINKAGE_EXTERNAL"

EligibleNames == {f.name : f \in {g \in Range(funcs) : Eligible(g)}}

\* v is the native type the specification gives LLVM type t (4.1), the
\* aggregate of a struct being the class of its name in heap
RECURSIVE Lowers(_, _, _)
Lowers(t, v, heap) ==
    CASE t.kind = "TYPE_INTEGER" -> t.width \in NativeWidths /\ v = c_int(t.width)
      [] t.kind = "TYPE_FLOAT"   -> v = c_float
      [] t.kind = "TYPE_DOUBLE"  -> v = c_double
      [] t.kind = "TYPE_VOID"    -> v = None
      [] t.kind = "TYPE_POINTER" ->
            IF t.pointee[1] = Integer(8) THEN v = c_char_p
            ELSE IF t.pointee[1] = Void THEN v = c_void_p
            ELSE v.c = "POINTER" /\ Lowers(t.pointee[1], v.to[1], heap)
      [] t.kind = "TYPE_STRUCT"  ->
            /\ v.c = "Structure"
            /\ v.id \in 1..Len(heap)
            /\ heap[v.id].name = PyName(t.name)
      [] OTHER -> FALSE

\* a step in which an activation for a pointer type returns a value
PointerLowered ==
    /\ stack # <<>>
    /\ Top.ty.kind = "TYPE_POINTER"
    /\ stack' = Rest
    /\ ret'.st = "value"

\* C6: make_all_wrappers never hands a function that is internal by name, a
\* declaration, or not of external linkage to make_ctypes_wrapper or to the
\* engine, and every callable of the namespace bears the name of an eligible
\* function and holds that function's address.
C6_OnlyEligibleWrapped ==
    /\ attempted \subseteq EligibleNames
    /\ resolved \subseteq EligibleNames
    /\ \A n \in PyNames :
          py_module[n].k = "callable" =>
             /\ n \in EligibleNames
             /\ \E k \in 1..Len(funcs) :
                   /\ funcs[k].name = n
                   /\ Eligible(funcs[k])
                   /\ wrappers[py_module[n].ref].addr = k

\* a batch has ended that wrapped one function and passed over three kinds of
\* ineligible ones
C6_Witness ==
    /\ pc = "idle" /\ outcome.op = "batch" /\ outcome.st = "done"
    /\ \E n \in PyNames : py_module[n].k = "callable"
    /\ \E k \in 1..Len(funcs) : ~Eligible(funcs[k]) /\ funcs[k].name \notin attempted

\* C7: whenever the lowering of a pointer type returns, at any depth, the
\* result is c_char_p exactly for a pointee Integer(8), c_void_p exactly for a
\* pointee Void, and otherwise POINTER of the lowered pointee.
C7_PointerLowering ==
    [][PointerLowered =>
          /\ Lowers(Top.ty, ret'.val, classes')
          /\ ret'.val = c_char_p <=> Top.ty.pointee[1] = Integer(8)
          /\ ret'.val = c_void_p <=> Top.ty.pointee[1] = Void
          /\ ret'.val # POINTER(c_int(8))
          /\ ret'.val # POINTER(None)]_vars

\* a pointer to a struct with a char* element was lowered: the element is a
\* field of the class the result points to
C7_Witness ==
    /\ pc = "idle" /\ outcome.op = "lower" /\ outcome.st = "value"
    /\ outcome.ty = <<Pointer(Struct(SA))>>
    /\ outcome.val.c = "POINTER"
    /\ LET class == classes[outcome.val.to[1].id]
       IN  /\ class.has_fields
           /\ \E k \in 1..Len(class.fields) :
                 /\ structs[SA][k] = Pointer(Integer(8))
                 /\ class.fields[k][2] = c_char_p

\* every type reachable from t (through pointees and struct elements) has a
\* native equivalent; seen holds the structs already on the way
RECURSIVE Supported(_, _)
Supported(t, seen) ==
    CASE t.kind = "TYPE_INTEGER" -> t.width \in NativeWidths
      [] t.kind \in {"TYPE_FLOAT", "TYPE_DOUBLE", "TYPE_VOID"} -> TRUE
      [] t.kind = "TYPE_POINTER" -> Supported(t.pointee[1], seen)
      [] t.kind = "TYPE_STRUCT" ->
            \/ t.name \in seen
            \/ \A k \in 1..Len(structs[t.name]) :
                  Supported(structs[t.name][k], seen \cup {t.name})
      [] OTHER -> FALSE

SignatureSupported(f) ==
    /\ Supported(f.return_type, {})
    /\ \A k \in 1..Len(f.args) : Supported(f.args[k], {})

\* the namespace holds the callable of function f under f's name
Installed(f) ==
    /\ py_module[f.name].k = "callable"
    /\ wrappers[py_module[f.name].ref].name = f.name
    /\ funcs[wrappers[py_module[f.name].ref].addr] = f

BatchEnded == pc = "idle" /\ outcome.op = "batch"

\* C1: when make_all_wrappers ends, no error has escaped it, and every
\* eligible function whose signature is fully supported is installed under its
\* name, whatever unsupported functions the module holds and wherever.
C1_UnsupportedSkippedOthersWrapped ==
    BatchEnded =>
       /\ outcome.st = "done"
       /\ \A k \in 1..Len(funcs) :
             Eligible(funcs[k]) /\ SignatureSupported(funcs[k]) => Installed(funcs[k])

\* C2: a callable is installed for a function only if every type reachable
\* from its signature is supported.
C2_InstalledOnlyIfSupported ==
    \A k \in 1..Len(funcs) : Installed(funcs[k]) => SignatureSupported(funcs[k])

\* at most one class was ever built for a name
OneClassPerName ==
    \A i, j \in 1..Len(classes) : classes[i].name = classes[j].name => i = j

\* a step in which an activation for a struct type starts while a class of the
\* struct's name exists already
StructLoweredAgain ==
    /\ stack # <<>> /\ ret.st = "none"
    /\ Top.st = "call" /\ Top.ty.kind = "TYPE_STRUCT"
    /\ \E id \in 1..Len(classes) : classes[id].name = PyName(Top.ty.name)
    /\ stack' # stack

\* C3: at most one class is ever built and registered for an aggregate name,
\* and every lowering of a struct of that name after the first returns that
\* very class: no new one, and no error.
C3_OneCachedClassPerName ==
    /\ []OneClassPerName
    /\ [][StructLoweredAgain =>
             /\ classes' = classes
             /\ ret'.st = "value"
             /\ ret'.val.c = "Structure"
             /\ classes[ret'.val.id].name = PyName(Top.ty.name)]_vars

\* C8: lowering Integer(w) returns the signed integer type of w bits when
\* there is one, and otherwise raises the error an unknown type tag raises,
\* which make_ctypes_wrapper catches.
C8_IntegerWidths ==
    \A w \in Widths :
       pc = "idle" /\ outcome.op = "lower" /\ outcome.ty = <<Integer(w)>> =>
          IF w \in NativeWidths
          THEN outcome.st = "value" /\ outcome.val = c_int(w)
          ELSE /\ outcome.st = "raise"
               /\ Raise(outcome.exc) = ScalarCtype(Other)
               /\ Caught(outcome.exc)

\* the LLVM struct whose class bears the name n
StructOfClass(n) == CHOOSE m \in StructNames : PyName(m) = n

\* C9: a class whose field list is attached has one field per element of its
\* struct, in element order and of the element's lowered type; the field names
\* are "e0", "e1", ... unless the namespace held a list of names, and such a
\* list changes the names only.
C9_FieldsFollowElements ==
    /\ \A id \in 1..Len(classes) :
          classes[id].has_fields =>
             LET elements == structs[StructOfClass(classes[id].name)]
                 fields   == classes[id].fields
             IN  /\ Len(fields) = Len(elements)
                 /\ \A k \in 1..Len(fields) : Lowers(elements[k], fields[k][2], classes)
    /\ \A n \in StructNames :
          /\ pc = "idle" /\ outcome.op = "lower" /\ outcome.st = "value"
          /\ outcome.ty = <<Struct(n)>>
          /\ outcome.val.id > outcome.nclasses
          /\ outcome.ns[PyName(n)].k # "class"
          => \A k \in 1..Len(classes[outcome.val.id].fields) :
                classes[outcome.val.id].fields[k][1] = <<"e">> \o Str(k - 1)

\* C10: when the field list of a class is attached, every field that embeds
\* another class by value refers to a class whose own field list is attached.
C10_EmbeddedClassesComplete ==
    [][\A id \in 1..Len(classes) :
          ~classes[id].has_fields /\ classes'[id].has_fields =>
             \A k \in 1..Len(classes'[id].fields) :
                classes'[id].fields[k][2].c = "Structure" =>
                   classes[classes'[id].fields[k][2].id].has_fields]_vars

(***************************************************************************)
(* Termination.  The modules whose structs hold nothing but each other,    *)
(* by pointer or by value; a call that has started takes its steps.        *)
(***************************************************************************)
RefElemTypes == {Pointer(Struct(n)) : n \in StructNames} \cup {Struct(n) : n \in StructNames}

InitRefs ==
    /\ structs \in StructTables(RefElemTypes)
    /\ funcs = <<>>
    /\ py_module \in Namespaces
    /\ InitCommon

\* the interpreter runs a call to its end: no step of it waits for ever
FairLower == InitRefs /\ [][NextLower]_vars /\ WF_vars(LowerDone \/ Lowering)

E0 == <<"e">> \o Str(0)

\* Node { next: Pointer(Node) } is being lowered, or was lowered last, from a
\* namespace that did not hold Node
NodeCall(n) ==
    /\ structs[n] = <<Pointer(Struct(n))>>
    /\ outcome.op = "lower"
    /\ outcome.ty = <<Struct(n)>>
    /\ outcome.ns[PyName(n)] = Absent

\* C4: lowering a self-referential struct Node { next: Pointer(Node) } in a
\* namespace without Node ends, the recursion being no deeper than the struct,
\* its pointer element and the cached struct; and the one field of the class
\* returned is a pointer to that very class.
C4_SelfReference ==
    /\ [](\A n \in StructNames : NodeCall(n) /\ pc = "lower" => Len(stack) <= 3)
    /\ [](\A n \in StructNames :
            NodeCall(n) /\ pc = "idle" =>
               /\ outcome.st = "value"
               /\ outcome.val.c = "Structure"
               /\ py_module[PyName(n)] = StructClass(outcome.val.id)
               /\ classes[outcome.val.id].has_fields
               /\ classes[outcome.val.id].fields = <<<<E0, POINTER(outcome.val)>>>>)
    /\ ((\E n \in StructNames : NodeCall(n)) /\ pc = "lower") ~> (pc = "idle")

\* the cached, still empty class was handed out while Node was being lowered
C4_Witness ==
    /\ NodeCall(SA)
    /\ pc = "idle"
    /\ outcome.val = Structure(1)
    /\ classes[1].fields = <<<<E0, POINTER(Structure(1))>>>>

\* A { b: Pointer(B) } and B { a: Pointer(A) }, one of them being lowered or
\* lowered last, from the empty namespace
MutualCall ==
    /\ structs[SA] = <<Pointer(Struct(SB))>>
    /\ structs[SB] = <<Pointer(Struct(SA))>>
    /\ outcome.op = "lower"
    /\ outcome.ty \in {<<Struct(SA)>>, <<Struct(SB)>>}
    /\ outcome.ns = EmptyNamespace

ClassesNamed(n) == {id \in 1..Len(classes) : classes[id].name = n}

\* C5: with A { b: Pointer(B) } and B { a: Pointer(A) } and an empty
\* namespace, lowering A and lowering B both end with a value, and leave one
\* class for A and one for B, each with its one field attached, A's pointing
\* to B's registered class and B's to A's.
C5_MutualReference ==
    /\ [](MutualCall /\ pc = "lower" => Len(stack) <= 5)
    /\ [](MutualCall /\ pc = "idle" =>
            /\ outcome.st = "value"
            /\ outcome.val.c = "Structure"
            /\ py_module[PyName(outcome.ty[1].name)] = StructClass(outcome.val.id)
            /\ \A n \in StructNames : Cardinality(ClassesNamed(PyName(n))) = 1
            /\ \E a, b \in 1..Len(classes) :
                  /\ py_module[PyName(SA)] = StructClass(a)
                  /\ py_module[PyName(SB)] = StructClass(b)
                  /\ classes[a].name = PyName(SA) /\ classes[a].has_fields
                  /\ classes[b].name = PyName(SB) /\ classes[b].has_fields
                  /\ classes[a].fields = <<<<E0, POINTER(Structure(b))>>>>
                  /\ classes[b].fields = <<<<E0, POINTER(Structure(a))>>>>)
    /\ (MutualCall /\ pc = "lower") ~> (pc = "idle")

\* B was lowered first, and A on the way
C5_Witness ==
    /\ MutualCall
    /\ pc = "idle"
    /\ outcome.ty = <<Struct(SB)>>
    /\ outcome.val = Structure(1)
    /\ classes[2].name = PyName(SA)
    /\ classes[2].fields = <<<<E0, POINTER(Structure(1))>>>>

====
